---- MODULE Spec2Model ----
(***************************************************************************)
(* Model of the linklog Lambda handler (src/unnamed/part_000) and of the  *)
(* SQL queries it runs (src/embedsql/main.go).                            *)
(*                                                                         *)
(* One invocation of handler() is one action: Get, Post, Put, Delete or   *)
(* Other.  The action leaves the request, the response, the trace of the  *)
(* calls it made and the store as it was before the request in the state, *)
(* so that the properties can speak about them.  Deliver models the       *)
(* runtime loop of lambda.Start: the response is handed back and the      *)
(* process waits for the next event.  This is the specification Spec.     *)
(*                                                                         *)
(* RespondSpec and ExtractSpec apply respond() and fetchMetadata() on     *)
(* their own to arguments drawn by their initial predicates.  ConcSpec    *)
(* runs concurrent invocations, each in a process of its own, against the *)
(* one links table, a call to the queries being one step.                 *)
(***************************************************************************)
EXTENDS Integers, Sequences, FiniteSets, TLC

VARIABLES
    store,      \* links table: id -> Link
    seq,        \* highest id the table ever assigned (AUTOINCREMENT schemas)
    schema,     \* how the table assigns ids: "rowid" or "autoincrement"
    queries,    \* package variable queries: "nil", "open" or "closed"
    templates,  \* package variables *Template: "nil" or "parsed"
    phase,      \* "idle": waiting for an event; "done": handler returned
    req,        \* the request of the current invocation
    resp,       \* the response of the current invocation
    trace,      \* the calls the current invocation made, in order
    pre,        \* the store when the current invocation started
    prior,      \* in a read-back: the id a POST created and the Link it answered
    input,      \* a function applied on its own: its arguments
    output,     \* a function applied on its own: its result
    procs       \* concurrent requests in flight: where each stands, what it holds

vars == <<store, seq, schema, queries, templates, phase, req, resp, trace, pre, prior,
          input, output, procs>>

----------------------------------------------------------------------------
(* Bounds and input alphabets *)

\* Ids the table may assign before the model stops creating links.
MaxLinks == 2

Max(a, b) == IF a >= b THEN a ELSE b

----------------------------------------------------------------------------
(* Data: models.Link, sql.NullString, LinkMetadata *)

NullString(s, valid) == [String |-> s, Valid |-> valid]
ZeroNullString == NullString("", FALSE)

Link(id, url, commentary, title, image) ==
    [ID |-> id, Url |-> url, Commentary |-> commentary, Title |-> title, ImageUrl |-> image]
ZeroLink == Link(0, "", "", ZeroNullString, ZeroNullString)

LinkMetadata(title, image) == [Title |-> title, ImageURL |-> image]
ZeroMetadata == LinkMetadata("", "")

----------------------------------------------------------------------------
(* strconv.Atoi on short decimal strings.  A string is a sequence of      *)
(* one-character strings; the empty string is << >>.  The strings of the  *)
(* model are too short for a range error.                                 *)

DigitChars == <<"0", "1", "2", "3", "4", "5", "6", "7", "8", "9">>
IsDigit(c) == \E i \in DOMAIN DigitChars : DigitChars[i] = c
DigitValue(c) == (CHOOSE i \in DOMAIN DigitChars : DigitChars[i] = c) - 1

RECURSIVE DecimalValue(_)
DecimalValue(s) ==
    IF s = <<>> THEN 0
    ELSE 10 * DecimalValue(SubSeq(s, 1, Len(s) - 1)) + DigitValue(s[Len(s)])

Atoi(s) ==
    LET signed == Len(s) > 0 /\ s[1] \in {"+", "-"}
        digits == IF signed THEN Tail(s) ELSE s
        ok     == Len(digits) > 0 /\ \A i \in DOMAIN digits : IsDigit(digits[i])
        v      == IF ok THEN DecimalValue(digits) ELSE 0
    IN  [val |-> IF signed /\ s[1] = "-" THEN 0 - v ELSE v, err |-> ~ok]

\* The id strings a request may carry.
IdStrs ==
    {<<>>, <<"x">>, <<"0", "1">>} \cup {<<DigitChars[i + 1]>> : i \in 1..MaxLinks}

----------------------------------------------------------------------------
(* url.ParseQuery and url.Values.Get.  A body is the sequence of its      *)
(* key=value pairs; "%zz" stands for an invalid percent escape.           *)

BadEscape == "%zz"

ParseQuery(body) ==
    LET keys == {body[i][1] : i \in DOMAIN body}
        first(k) == CHOOSE i \in DOMAIN body :
                        body[i][1] = k /\ \A j \in DOMAIN body : body[j][1] = k => i <= j
    IN  [err  |-> \E i \in DOMAIN body : body[i][1] = BadEscape \/ body[i][2] = BadEscape,
         form |-> [k \in keys |-> body[first(k)][2]]]

FormGet(form, k) == IF k \in DOMAIN form THEN form[k] ELSE ""

\* Form(u, c) is the body url=u&commentary=c.
Form(u, c) == <<<<"url", u>>, <<"commentary", c>>>>

Bodies ==
    {<<>>, <<<<"url", BadEscape>>>>, <<<<"url", "u1">>>>, Form("", "c1"),
     Form("u1", "c1"), Form("u1", "c2"), Form("u2", "c1")}

----------------------------------------------------------------------------
(* The Metadata Resolver, as the handler sees it: an error, or the        *)
(* metadata of the page behind the url.                                   *)

PageMetadata(urlStr) ==
    IF urlStr = "u1" THEN LinkMetadata("t1", "i1") ELSE LinkMetadata("t2", "")

fetchMetadata(urlStr, netErr) ==
    IF netErr THEN [err |-> TRUE, metadata |-> ZeroMetadata]
    ELSE [err |-> FALSE, metadata |-> PageMetadata(urlStr)]

----------------------------------------------------------------------------
(* The queries of embedsql, on the links table.  fail is a failure of the *)
(* store during the call.                                                 *)

MaxId(s) == IF DOMAIN s = {} THEN 0 ELSE CHOOSE m \in DOMAIN s : \A k \in DOMAIN s : k <= m

\* Mutant of LastInsertId: the largest id in use, not one more.
LastInsertIdStale(s, sq, sch) == Max(1, MaxId(s))

\* The id INSERT assigns: one more than the largest id in the table, or,
\* with AUTOINCREMENT, one more than the largest id ever assigned.
LastInsertId(s, sq, sch) ==
    IF sch = "autoincrement" THEN Max(sq, MaxId(s)) + 1 ELSE MaxId(s) + 1

CreateLink(s, sq, sch, params, fail) ==
    IF fail THEN [err |-> TRUE, id |-> 0, store |-> s, seq |-> sq]
    ELSE LET id == LastInsertId(s, sq, sch)
         IN  [err   |-> FALSE,
              id    |-> id,
              store |-> [k \in DOMAIN s \cup {id} |->
                            IF k = id
                            THEN Link(id, params.Url, params.Commentary,
                                      params.Title, params.ImageUrl)
                            ELSE s[k]],
              seq   |-> IF sch = "autoincrement" THEN id ELSE sq]

GetLink(s, id, fail) ==
    IF fail \/ id \notin DOMAIN s THEN [err |-> TRUE, link |-> ZeroLink]
    ELSE [err |-> FALSE, link |-> s[id]]

\* Mutant of DescendingById: ORDER BY id ASC.
RECURSIVE AscendingById(_, _)
AscendingById(s, ids) ==
    IF ids = {} THEN <<>>
    ELSE LET m == CHOOSE k \in ids : \A j \in ids : k <= j
         IN  <<s[m]>> \o AscendingById(s, ids \ {m})

RECURSIVE DescendingById(_, _)
DescendingById(s, ids) ==
    IF ids = {} THEN <<>>
    ELSE LET m == CHOOSE k \in ids : \A j \in ids : j <= k
         IN  <<s[m]>> \o DescendingById(s, ids \ {m})

ListLinks(s, fail) ==
    IF fail THEN [err |-> TRUE, links |-> <<>>]
    ELSE [err |-> FALSE, links |-> DescendingById(s, DOMAIN s)]

\* Mutant of DeleteLink: WHERE id <= ? for WHERE id = ?.
DeleteLinkUpTo(s, id, fail) ==
    IF fail THEN [err |-> TRUE, store |-> s]
    ELSE [err |-> FALSE, store |-> [k \in {j \in DOMAIN s : j > id} |-> s[k]]]

DeleteLink(s, id, fail) ==
    IF fail THEN [err |-> TRUE, store |-> s]
    ELSE [err |-> FALSE, store |-> [k \in DOMAIN s \ {id} |-> s[k]]]

\* Mutant of UpdateLink: the row is inserted when no row has the id.
UpdateLinkUpsert(s, params, fail) ==
    IF fail THEN [err |-> TRUE, store |-> s]
    ELSE [err   |-> FALSE,
          store |-> [k \in DOMAIN s \cup {params.ID} |->
                        IF k = params.ID
                        THEN Link(k, params.Url, params.Commentary,
                                  params.Title, params.ImageUrl)
                        ELSE s[k]]]

\* Mutant of UpdateLink: the UPDATE has no WHERE id = ?.
UpdateLinkEveryRow(s, params, fail) ==
    IF fail THEN [err |-> TRUE, store |-> s]
    ELSE [err   |-> FALSE,
          store |-> [k \in DOMAIN s |->
                        Link(k, params.Url, params.Commentary,
                             params.Title, params.ImageUrl)]]

UpdateLink(s, params, fail) ==
    IF fail THEN [err |-> TRUE, store |-> s]
    ELSE [err   |-> FALSE,
          store |-> [k \in DOMAIN s |->
                        IF k = params.ID
                        THEN Link(k, params.Url, params.Commentary,
                                  params.Title, params.ImageUrl)
                        ELSE s[k]]]

\* One entry of the trace: a call of the handler to the store or the Resolver.
Call(op, id, url, ok) == [op |-> op, id |-> id, url |-> url, ok |-> ok]

----------------------------------------------------------------------------
(* Requests and responses (events.APIGatewayProxyRequest / Response).     *)

Request(method, hasId, id, view, hx, body) ==
    [method |-> method, hasId |-> hasId, id |-> id, view |-> view, hx |-> hx, body |-> body]

\* req.QueryStringParameters["id"]: the empty string when the key is absent.
QueryId(r) == IF r.hasId THEN r.id ELSE <<>>

\* A response body: a fixed message, the raw text of an error, a rendered
\* template or a JSON document, with the links it shows.
Body(kind, text, tpl, shape, links) ==
    [kind |-> kind, text |-> text, tpl |-> tpl, shape |-> shape, links |-> links]
EmptyBody == Body("empty", "", "", "", <<>>)
TextBody(msg) == Body("text", msg, "", "", <<>>)
ErrorBody(op) == Body("error", op, "", "", <<>>)

\* err is the error handler returns next to the response.
Response(status, ctype, body, err) ==
    [status |-> status, ctype |-> ctype, body |-> body, err |-> err]

\* What one invocation leaves behind.
Result(response, calls, s, sq) ==
    [resp |-> response, trace |-> calls, store |-> s, seq |-> sq]

\* The failures of one invocation: init is how the preamble ends, failAt the
\* number of the first call to the queries that fails (0: none), netErr a
\* failure of the Resolver, renderErr a failure of Execute or json.Marshal.
Env(init, failAt, netErr, renderErr) ==
    [init |-> init, failAt |-> failAt, netErr |-> netErr, renderErr |-> renderErr]

\* A preamble that fails ends the invocation before any other failure counts.
Envs ==
    {Env("open", 0, FALSE, FALSE), Env("ddl", 0, FALSE, FALSE)}
    \cup {Env("ok", k, n, x) : k \in 0..3, n \in BOOLEAN, x \in BOOLEAN}

\* The failures that can show in a GET or DELETE (one call to the queries, no
\* Resolver), in a POST (two calls) and in a PUT (three calls).  A failure
\* of rendering is left out where a failed call returns before rendering.
GetEnvs == {e \in Envs : e.failAt <= 1 /\ ~e.netErr /\ (e.failAt = 1 => ~e.renderErr)}
PostEnvs == {e \in Envs : e.failAt <= 2 /\ (e.failAt = 1 => ~e.renderErr)}
PutEnvs == {e \in Envs : e.failAt >= 2 => ~e.renderErr}
DeleteEnvs == {e \in Envs : e.failAt <= 1 /\ ~e.netErr /\ ~e.renderErr}
DefaultEnvs == {e \in Envs : e.failAt = 0 /\ ~e.netErr /\ ~e.renderErr}

\* The trace entry of a rendering: Execute of a template or json.Marshal.
Render(renderErr) == <<Call("render", 0, "", ~renderErr)>>

\* Mutant of respond: any hx-request header asks for a fragment.
respondAnyHeader(r, shape, links, renderErr) ==
    IF r.hx # ""
    THEN LET tpl == IF shape = "list" THEN "list"
                    ELSE IF r.view = "detail" THEN "detail" ELSE "link"
         IN  IF shape \notin {"list", "link"} THEN Response(400, "", EmptyBody, TRUE)
             ELSE IF renderErr THEN Response(500, "", EmptyBody, TRUE)
             ELSE Response(200, "text/html", Body("html", "", tpl, shape, links), FALSE)
    ELSE IF renderErr THEN Response(500, "", EmptyBody, TRUE)
         ELSE Response(200, "application/json", Body("json", "", "", shape, links), FALSE)

\* shape is the dynamic type of data: "list" for []models.Link, "link" for
\* models.Link, anything else for the default case of the type switch.
respond(r, shape, links, renderErr) ==
    IF r.hx = "true"
    THEN LET tpl == IF shape = "list" THEN "list"
                    ELSE IF r.view = "detail" THEN "detail" ELSE "link"
         IN  IF shape \notin {"list", "link"} THEN Response(400, "", EmptyBody, TRUE)
             ELSE IF renderErr THEN Response(500, "", EmptyBody, TRUE)
             ELSE Response(200, "text/html", Body("html", "", tpl, shape, links), FALSE)
    ELSE IF renderErr THEN Response(500, "", EmptyBody, TRUE)
         ELSE Response(200, "application/json", Body("json", "", "", shape, links), FALSE)

----------------------------------------------------------------------------
(* The branches of handler().  Each takes the request, the failures of    *)
(* the invocation and the table, and gives the Result.                    *)

GetHandler(r, env, s, sq) ==
    IF QueryId(r) # <<>>
    THEN LET a == Atoi(QueryId(r))
             g == GetLink(s, a.val, env.failAt = 1)
             c == <<Call("GetLink", a.val, "", ~g.err)>>
         IN  IF a.err THEN Result(Response(400, "", TextBody("Invalid link ID"), FALSE), <<>>, s, sq)
             ELSE IF g.err THEN Result(Response(500, "", ErrorBody("GetLink"), FALSE), c, s, sq)
             ELSE Result(respond(r, "link", <<g.link>>, env.renderErr),
                         c \o Render(env.renderErr), s, sq)
    ELSE LET l == ListLinks(s, env.failAt = 1)
             c == <<Call("ListLinks", 0, "", ~l.err)>>
         IN  IF l.err THEN Result(Response(500, "", EmptyBody, TRUE), c, s, sq)
             ELSE Result(respond(r, "list", l.links, env.renderErr),
                         c \o Render(env.renderErr), s, sq)

\* Mutant of InvalidPayload: && for ||.
InvalidPayloadBothEmpty(Url, content) == content = "" /\ Url = ""

\* content == "" || Url == ""
InvalidPayload(Url, content) == content = "" \/ Url = ""

\* Mutant of MetadataColumns: Valid: true for Valid: x != "".
MetadataColumnsAlwaysValid(metadata) ==
    [Title    |-> NullString(metadata.Title, TRUE),
     ImageUrl |-> NullString(metadata.ImageURL, TRUE)]

\* sql.NullString{String: x, Valid: x != ""} for both fields of the metadata.
MetadataColumns(metadata) ==
    [Title    |-> NullString(metadata.Title, metadata.Title # ""),
     ImageUrl |-> NullString(metadata.ImageURL, metadata.ImageURL # "")]
ZeroColumns == [Title |-> ZeroNullString, ImageUrl |-> ZeroNullString]

\* POST: "if metadata, err := fetchMetadata(Url); err == nil { ... }".
CreateMetadata(Url, netErr) ==
    LET m == fetchMetadata(Url, netErr)
    IN  [columns |-> IF m.err THEN ZeroColumns ELSE MetadataColumns(m.metadata),
         calls   |-> <<Call("fetchMetadata", 0, Url, ~m.err)>>]

\* POST from link.Url = Url on: resolve, CreateLink, re-read, respond.
PostWrite(r, env, s, sq, sch, Url, content) ==
    LET md == CreateMetadata(Url, env.netErr)
        link == [Url |-> Url, Commentary |-> content,
                 Title |-> md.columns.Title, ImageUrl |-> md.columns.ImageUrl]
        cr == CreateLink(s, sq, sch, link, env.failAt = 1)
        c1 == md.calls \o <<Call("CreateLink", cr.id, Url, ~cr.err)>>
        g  == GetLink(cr.store, cr.id, env.failAt = 2)
        c2 == c1 \o <<Call("GetLink", cr.id, "", ~g.err)>>
    IN  IF cr.err THEN Result(Response(500, "", ErrorBody("CreateLink"), FALSE), c1, s, sq)
        ELSE Result(respond(r, "link", <<g.link>>, env.renderErr),
                    c2 \o Render(env.renderErr), cr.store, cr.seq)

\* Mutant of PostHandler: the write comes before the check of the payload.
PostHandlerWriteFirst(r, env, s, sq, sch) ==
    LET pq == ParseQuery(r.body)
        Url == FormGet(pq.form, "url")
        content == FormGet(pq.form, "commentary")
        Written(w) ==
            IF InvalidPayload(Url, content)
            THEN Result(Response(400, "", TextBody("Invalid request body"), FALSE),
                        w.trace, w.store, w.seq)
            ELSE w
    IN  IF pq.err
        THEN Result(Response(400, "", TextBody("Invalid request body"), FALSE), <<>>, s, sq)
        ELSE Written(PostWrite(r, env, s, sq, sch, Url, content))

PostHandler(r, env, s, sq, sch) ==
    LET pq == ParseQuery(r.body)
        Url == FormGet(pq.form, "url")
        content == FormGet(pq.form, "commentary")
        bad == Result(Response(400, "", TextBody("Invalid request body"), FALSE), <<>>, s, sq)
    IN  IF pq.err THEN bad
        ELSE IF InvalidPayload(Url, content) THEN bad
        ELSE PostWrite(r, env, s, sq, sch, Url, content)

\* Mutant of UpdateMetadata: the metadata is fetched on every update.
UpdateMetadataAlways(Url, linkObj, netErr) ==
    LET m == fetchMetadata(Url, netErr)
    IN  [columns |-> IF m.err THEN ZeroColumns ELSE MetadataColumns(m.metadata),
         calls   |-> <<Call("fetchMetadata", 0, Url, ~m.err)>>]

\* Mutant of UpdateMetadata: the fetch goes to the stored url, not the new one.
UpdateMetadataOldUrl(Url, linkObj, netErr) ==
    IF Url # linkObj.Url
    THEN LET m == fetchMetadata(linkObj.Url, netErr)
         IN  [columns |-> IF m.err THEN ZeroColumns ELSE MetadataColumns(m.metadata),
              calls   |-> <<Call("fetchMetadata", 0, linkObj.Url, ~m.err)>>]
    ELSE [columns |-> [Title |-> linkObj.Title, ImageUrl |-> linkObj.ImageUrl],
          calls   |-> <<>>]

\* Mutant of UpdateMetadata: the metadata of the Link is kept on every update.
UpdateMetadataNever(Url, linkObj, netErr) ==
    [columns |-> [Title |-> linkObj.Title, ImageUrl |-> linkObj.ImageUrl],
     calls   |-> <<>>]

\* PUT: "if Url != linkObj.Url { fetch } else { keep existing metadata }".
UpdateMetadata(Url, linkObj, netErr) ==
    IF Url # linkObj.Url
    THEN LET m == fetchMetadata(Url, netErr)
         IN  [columns |-> IF m.err THEN ZeroColumns ELSE MetadataColumns(m.metadata),
              calls   |-> <<Call("fetchMetadata", 0, Url, ~m.err)>>]
    ELSE [columns |-> [Title |-> linkObj.Title, ImageUrl |-> linkObj.ImageUrl],
          calls   |-> <<>>]

\* PUT with an empty form and an id: the edit form.  The errors of Atoi and
\* of GetLink are overwritten before they are read.
PutEditForm(r, env, s, sq) ==
    LET a == Atoi(QueryId(r))
        g == GetLink(s, a.val, env.failAt = 1)
        c == <<Call("GetLink", a.val, "", ~g.err)>> \o Render(env.renderErr)
    IN  IF env.renderErr THEN Result(Response(500, "", ErrorBody("Execute"), FALSE), c, s, sq)
        ELSE Result(Response(200, "text/html", Body("html", "", "edit", "link", <<g.link>>), FALSE),
                    c, s, sq)

\* PUT, any other body: the full update.
PutFullUpdate(r, env, s, sq, form) ==
    LET a == Atoi(QueryId(r))
        g == GetLink(s, a.val, env.failAt = 1)
        linkObj == g.link
        c1 == <<Call("GetLink", a.val, "", ~g.err)>>
        Url == FormGet(form, "url")
        content == FormGet(form, "commentary")
        md == UpdateMetadata(Url, linkObj, env.netErr)
        link == [ID |-> linkObj.ID, Url |-> Url, Commentary |-> content,
                 Title |-> md.columns.Title, ImageUrl |-> md.columns.ImageUrl]
        u  == UpdateLink(s, link, env.failAt = 2)
        c2 == c1 \o md.calls \o <<Call("UpdateLink", link.ID, Url, ~u.err)>>
        g2 == GetLink(u.store, a.val, env.failAt = 3)
        c3 == c2 \o <<Call("GetLink", a.val, "", ~g2.err)>>
    IN  IF g.err THEN Result(Response(400, "", TextBody("Invalid link ID"), FALSE), c1, s, sq)
        ELSE IF InvalidPayload(Url, content)
        THEN Result(Response(400, "", TextBody("Invalid request body"), FALSE), c1, s, sq)
        ELSE IF u.err THEN Result(Response(500, "", ErrorBody("UpdateLink"), FALSE), c2, s, sq)
        ELSE IF g2.err THEN Result(Response(500, "", ErrorBody("GetLink"), FALSE), c3, u.store, sq)
        ELSE Result(respond(r, "link", <<g2.link>>, env.renderErr),
                    c3 \o Render(env.renderErr), u.store, sq)

PutHandler(r, env, s, sq) ==
    LET pq == ParseQuery(r.body)
    IN  IF pq.err
        THEN Result(Response(400, "", TextBody("Invalid request body"), FALSE), <<>>, s, sq)
        ELSE IF Cardinality(DOMAIN pq.form) = 0 /\ QueryId(r) # <<>>
        THEN PutEditForm(r, env, s, sq)
        ELSE PutFullUpdate(r, env, s, sq, pq.form)

DeleteHandler(r, env, s, sq) ==
    LET a == Atoi(QueryId(r))
        d == DeleteLink(s, a.val, env.failAt = 1)
        c == <<Call("DeleteLink", a.val, "", ~d.err)>>
    IN  IF QueryId(r) = <<>>
        THEN Result(Response(400, "", TextBody("Missing link ID"), FALSE), <<>>, s, sq)
        ELSE IF ~r.hasId
        THEN Result(Response(400, "", TextBody("Missing link"), FALSE), <<>>, s, sq)
        ELSE IF a.err
        THEN Result(Response(400, "", TextBody("Invalid link ID"), FALSE), <<>>, s, sq)
        ELSE IF d.err THEN Result(Response(500, "", ErrorBody("DeleteLink"), FALSE), c, s, sq)
        ELSE Result(Response(200, "text/html", EmptyBody, FALSE), c, d.store, sq)

\* Any other verb: the default branch.
DefaultHandler(r, env, s, sq) == Result(Response(200, "", EmptyBody, FALSE), <<>>, s, sq)

\* The verb switch of handler().
Dispatch(r, env, s, sq, sch) ==
    IF r.method = "GET" THEN GetHandler(r, env, s, sq)
    ELSE IF r.method = "POST" THEN PostHandler(r, env, s, sq, sch)
    ELSE IF r.method = "PUT" THEN PutHandler(r, env, s, sq)
    ELSE IF r.method = "DELETE" THEN DeleteHandler(r, env, s, sq)
    ELSE DefaultHandler(r, env, s, sq)

\* handler(): the preamble (sql.Open, the DDL, the templates), then the verb.
handler(r, env, s, sq, sch) ==
    IF env.init = "open" THEN Result(Response(500, "", EmptyBody, TRUE), <<>>, s, sq)
    ELSE IF env.init = "ddl"
    THEN Result(Response(500, "", EmptyBody, TRUE), <<Call("ExecDDL", 0, "", FALSE)>>, s, sq)
    ELSE LET Started(res) ==
                 Result(res.resp, <<Call("ExecDDL", 0, "", TRUE)>> \o res.trace, res.store, res.seq)
         IN  Started(Dispatch(r, env, s, sq, sch))

----------------------------------------------------------------------------
(* The state machine *)

NoRequest == Request("", FALSE, <<>>, "", "", <<>>)
NoResponse == Response(0, "", EmptyBody, FALSE)
NoPrior == [valid |-> FALSE, id |-> 0, link |-> ZeroLink]
NoInput == [fn |-> ""]
NoOutput == [fn |-> ""]
NoProcs == <<>>

\* The id of a request: absent, or one of the id strings.
IdParams == {<<FALSE, <<>>>>} \cup {<<TRUE, i>> : i \in IdStrs}
Views == {"", "detail"}
HxHeaders == {"", "true"}

Init ==
    /\ store = <<>>
    /\ seq = 0
    /\ schema \in {"rowid", "autoincrement"}
    /\ queries = "nil"
    /\ templates = "nil"
    /\ phase = "idle"
    /\ req = NoRequest
    /\ resp = NoResponse
    /\ trace = <<>>
    /\ pre = <<>>
    /\ prior = NoPrior
    /\ input = NoInput
    /\ output = NoOutput
    /\ procs = NoProcs

\* One invocation of handler(), start to return.
Invoke(r, env, p) ==
    /\ \E res \in {handler(r, env, store, seq, schema)} :
           /\ DOMAIN res.store \subseteq 1..MaxLinks
           /\ store' = res.store
           /\ seq' = res.seq
           /\ resp' = res.resp
           /\ trace' = res.trace
    /\ queries' = IF env.init = "open" THEN queries ELSE "closed"
    /\ templates' = IF env.init = "ok" THEN "parsed" ELSE templates
    /\ phase' = "done"
    /\ req' = r
    /\ pre' = store
    /\ prior' = p
    /\ UNCHANGED <<schema, input, output, procs>>

Get ==
    /\ phase = "idle"
    /\ \E id \in IdParams, view \in Views, hx \in HxHeaders, env \in GetEnvs :
        Invoke(Request("GET", id[1], id[2], view, hx, <<>>), env, NoPrior)

Post ==
    /\ phase = "idle"
    /\ \E hx \in HxHeaders, body \in Bodies, env \in PostEnvs :
        Invoke(Request("POST", FALSE, <<>>, "", hx, body), env, NoPrior)

Put ==
    /\ phase = "idle"
    /\ \E id \in IdParams, hx \in HxHeaders, body \in Bodies, env \in PutEnvs :
        Invoke(Request("PUT", id[1], id[2], "", hx, body), env, NoPrior)

Delete ==
    /\ phase = "idle"
    /\ \E id \in IdParams, hx \in HxHeaders, env \in DeleteEnvs :
        Invoke(Request("DELETE", id[1], id[2], "", hx, <<>>), env, NoPrior)

Other ==
    /\ phase = "idle"
    /\ \E id \in IdParams, env \in DefaultEnvs :
        Invoke(Request("PATCH", id[1], id[2], "", "", <<>>), env, NoPrior)

\* FormatInt of a small id: the id as a client writes it into ?id=.
FormatId(n) == IF n \in 0..9 THEN <<DigitChars[n + 1]>> ELSE <<"x">>

\* The response of a POST answered 200 is delivered and the caller reads the
\* Link back at once, with GET ?id=<the id of the Link in the response>.
ReadBack ==
    /\ phase = "done"
    /\ req.method = "POST"
    /\ resp.status = 200
    /\ \E view \in Views, env \in GetEnvs :
        LET returned == resp.body.links[1]
        IN  Invoke(Request("GET", TRUE, FormatId(returned.ID), view, req.hx, <<>>), env,
                   [valid |-> TRUE, id |-> returned.ID, link |-> returned])

\* lambda.Start: the response goes back to the caller and the process waits
\* for the next event.
Deliver ==
    /\ phase = "done"
    /\ phase' = "idle"
    /\ req' = NoRequest
    /\ resp' = NoResponse
    /\ trace' = <<>>
    /\ pre' = store
    /\ prior' = NoPrior
    /\ UNCHANGED <<store, seq, schema, queries, templates, input, output, procs>>

Next == Get \/ Post \/ Put \/ Delete \/ Other \/ ReadBack \/ Deliver

Spec == Init /\ [][Next]_vars

----------------------------------------------------------------------------
(* Vocabulary of the properties: what the state says about the invocation *)
(* that just returned.                                                    *)

Done == phase = "done"

\* The invocation got through the preamble and reached the verb switch.
Dispatched == Done /\ trace # <<>> /\ trace[1].op = "ExecDDL" /\ trace[1].ok

\* The places of the trace where op was called.
CallsTo(op) == {i \in DOMAIN trace : trace[i].op = op}
QueryOps == {"GetLink", "ListLinks", "CreateLink", "UpdateLink", "DeleteLink"}
QueryCalls == {i \in DOMAIN trace : trace[i].op \in QueryOps}

\* The fields of the request as the handler reads them.
ReqForm == ParseQuery(req.body)
ReqUrl == FormGet(ReqForm.form, "url")
ReqCommentary == FormGet(ReqForm.form, "commentary")
ReqId == Atoi(QueryId(req))
ValidPayload == ~ReqForm.err /\ ReqUrl # "" /\ ReqCommentary # ""

\* PUT with an id and no form field at all asks for the edit form; any other
\* PUT is a full update.
EditFormRequest ==
    req.method = "PUT" /\ ~ReqForm.err /\ DOMAIN ReqForm.form = {} /\ QueryId(req) # <<>>
FullUpdateRequest == req.method = "PUT" /\ ~EditFormRequest

\* A full update whose fetch of the current Link succeeded.
FetchedForUpdate ==
    /\ Dispatched /\ FullUpdateRequest /\ ~ReqForm.err
    /\ Len(trace) >= 2 /\ trace[2].op = "GetLink" /\ trace[2].ok

\* The title and image columns are those MetadataResolver output m gives:
\* present exactly when the text is not empty.
ColumnsAre(l, m) ==
    /\ l.Title.Valid = (m.Title # "") /\ (l.Title.Valid => l.Title.String = m.Title)
    /\ l.ImageUrl.Valid = (m.ImageURL # "") /\ (l.ImageUrl.Valid => l.ImageUrl.String = m.ImageURL)
ColumnsAbsent(l) == ~l.Title.Valid /\ ~l.ImageUrl.Valid

----------------------------------------------------------------------------
(* C1.  Every persisted Link has a non-empty url and a non-empty          *)
(* commentary; a POST or a full-update PUT that reaches the verb switch   *)
(* with a body lacking url or commentary (absent or empty) is answered    *)
(* 400 and calls neither CreateLink nor UpdateLink.                       *)
C1_UrlAndCommentaryNeverEmpty ==
    /\ \A k \in DOMAIN store : store[k].Url # "" /\ store[k].Commentary # ""
    /\ (Dispatched /\ req.method = "POST" /\ ~ValidPayload)
          => (resp.status = 400 /\ CallsTo("CreateLink") = {})
    /\ (Dispatched /\ FullUpdateRequest /\ ~ValidPayload)
          => (resp.status = 400 /\ CallsTo("UpdateLink") = {})

\* A POST with an empty url was refused while the store holds links.
C1_Witness ==
    /\ Dispatched /\ req.method = "POST" /\ req.body = Form("", "c1")
    /\ resp.status = 400 /\ DOMAIN store # {}

(* C2.  A PUT on an existing Link whose body url equals the stored url    *)
(* never calls the Resolver, and leaves the Link with the title and the   *)
(* imageURL it had (absent or present alike), the same url and id; every  *)
(* other Link is as it was.                                               *)
C2_UnchangedUrlKeepsMetadata ==
    (Done /\ req.method = "PUT" /\ ~ReqId.err /\ ReqId.val \in DOMAIN pre
          /\ ReqUrl = pre[ReqId.val].Url)
    => /\ CallsTo("fetchMetadata") = {}
       /\ DOMAIN store = DOMAIN pre
       /\ store[ReqId.val].Title = pre[ReqId.val].Title
       /\ store[ReqId.val].ImageUrl = pre[ReqId.val].ImageUrl
       /\ store[ReqId.val].Url = pre[ReqId.val].Url
       /\ store[ReqId.val].ID = pre[ReqId.val].ID
       /\ \A k \in DOMAIN pre \ {ReqId.val} : store[k] = pre[k]

\* A full update with the stored url changed the commentary of a Link that
\* has a title.
C2_Witness ==
    /\ Done /\ req.method = "PUT" /\ resp.status = 200 /\ ~ReqId.err
    /\ ReqId.val \in DOMAIN pre /\ ReqUrl = pre[ReqId.val].Url
    /\ store[ReqId.val].Commentary # pre[ReqId.val].Commentary
    /\ store[ReqId.val].Title.Valid

(* C3.  A full update that fetched its Link and carries a valid payload   *)
(* with a url other than the stored one calls the Resolver exactly once,  *)
(* on the new url, and before UpdateLink; a valid POST calls it exactly   *)
(* once, on its url, before CreateLink; no request calls it twice.        *)
C3_OneResolverCallBeforeWrite ==
    /\ Done => Cardinality(CallsTo("fetchMetadata")) <= 1
    /\ (FetchedForUpdate /\ ValidPayload /\ ReqUrl # pre[ReqId.val].Url)
          => \E i \in CallsTo("fetchMetadata"), j \in CallsTo("UpdateLink") :
                 /\ trace[i].url = ReqUrl
                 /\ i < j
                 /\ CallsTo("fetchMetadata") = {i}
                 /\ CallsTo("UpdateLink") = {j}
    /\ (Dispatched /\ req.method = "POST" /\ ValidPayload)
          => \E i \in CallsTo("fetchMetadata"), j \in CallsTo("CreateLink") :
                 /\ trace[i].url = ReqUrl
                 /\ i < j
                 /\ CallsTo("fetchMetadata") = {i}
                 /\ CallsTo("CreateLink") = {j}

\* A full update moved a Link from one url to another and was answered 200.
C3_Witness ==
    /\ FetchedForUpdate /\ ValidPayload /\ ReqUrl # pre[ReqId.val].Url
    /\ resp.status = 200 /\ store[ReqId.val].Url = ReqUrl

\* Every call of the invocation to the queries and every rendering succeeded.
NoStoreOrRenderFailure ==
    \A i \in DOMAIN trace : trace[i].op \in QueryOps \cup {"render"} => trace[i].ok

\* The invocation is a valid create, or a valid full update to another url.
ResolvingWrite ==
    \/ Dispatched /\ req.method = "POST" /\ ValidPayload
    \/ FetchedForUpdate /\ ValidPayload /\ ReqUrl # pre[ReqId.val].Url

(* C4.  In a valid create and in a valid update to another url: the write *)
(* is attempted whether the Resolver succeeds or fails; a write that      *)
(* succeeds persists the title and imageURL the Resolver gave, and both   *)
(* absent when the Resolver failed; and with the Resolver failed and no   *)
(* failure of the store or of rendering the response is 200.              *)
C4_ResolverOutcomeDecidesMetadataOnly ==
    ResolvingWrite =>
        \E i \in CallsTo("fetchMetadata"), j \in CallsTo("CreateLink") \cup CallsTo("UpdateLink") :
            /\ i < j
            /\ trace[j].ok =>
                  /\ trace[j].id \in DOMAIN store
                  /\ store[trace[j].id].Url = ReqUrl
                  /\ IF trace[i].ok
                     THEN ColumnsAre(store[trace[j].id], PageMetadata(ReqUrl))
                     ELSE ColumnsAbsent(store[trace[j].id])
            /\ (~trace[i].ok /\ NoStoreOrRenderFailure) => resp.status = 200

\* The Resolver failed in a create, the Link is in the store without title
\* and image, and the answer is 200.
C4_Witness ==
    /\ Dispatched /\ req.method = "POST" /\ ValidPayload /\ resp.status = 200
    /\ \E i \in CallsTo("fetchMetadata") : ~trace[i].ok
    /\ \E j \in CallsTo("CreateLink") :
           trace[j].ok /\ ColumnsAbsent(store[trace[j].id]) /\ store[trace[j].id].Url = ReqUrl

(* C5.  A valid POST whose CreateLink succeeds adds exactly one Link: it  *)
(* has the submitted url and commentary, its id is carried by no Link     *)
(* that was in the store when the request started, and every Link that    *)
(* was in the store is unchanged.  A valid POST always reaches CreateLink.*)
C5_CreateAddsOneFreshLink ==
    (Dispatched /\ req.method = "POST" /\ ValidPayload)
    => /\ CallsTo("CreateLink") # {}
       /\ \A j \in CallsTo("CreateLink") :
             IF trace[j].ok
             THEN \E id \in DOMAIN store \ DOMAIN pre :
                     /\ DOMAIN store = DOMAIN pre \cup {id}
                     /\ store[id].ID = id
                     /\ store[id].Url = ReqUrl
                     /\ store[id].Commentary = ReqCommentary
                     /\ \A k \in DOMAIN pre : store[k] = pre[k]
             ELSE store = pre

\* A Link was created next to one that was already there.
C5_Witness ==
    /\ Dispatched /\ req.method = "POST" /\ ValidPayload /\ resp.status = 200
    /\ DOMAIN pre # {} /\ Cardinality(DOMAIN store) = Cardinality(DOMAIN pre) + 1

(* C6.  Round trip create -> read: a POST answered 200 returns the Link   *)
(* it persisted, and a GET ?id=<its id> that follows with no update or    *)
(* delete in between and is answered 200 returns a Link with the same id, *)
(* url, commentary, title and imageURL.                                   *)
C6_RoundTripCreateRead ==
    /\ (Dispatched /\ req.method = "POST" /\ resp.status = 200)
          => \E j \in CallsTo("CreateLink") :
                 /\ trace[j].id \in DOMAIN store
                 /\ resp.body.links = <<store[trace[j].id]>>
    /\ (Done /\ prior.valid /\ resp.status = 200)
          => resp.body.links = <<prior.link>>

(* C7.  A request answered 400 leaves the store as it was.                *)
C7_BadRequestLeavesStore ==
    (Done /\ resp.status = 400) => store = pre

\* A full update of an existing Link was refused for its payload.
C7_Witness ==
    /\ FetchedForUpdate /\ ~ValidPayload /\ resp.status = 400
    /\ resp.body.text = "Invalid request body" /\ DOMAIN store # {}

(* C8.  DELETE.  Without an id, or with an empty one: 400 "Missing link   *)
(* ID" and no call to the queries.  With an unparseable id: 400 and no    *)
(* call to the queries.  With a parseable id DeleteLink is called, and    *)
(* when it does not fail: 200 with an empty body, no Link with that id is *)
(* left (GetLink fails on it, ListLinks does not list it), and every      *)
(* other Link is unchanged.                                               *)
C8_Delete ==
    (Dispatched /\ req.method = "DELETE")
    => IF QueryId(req) = <<>>
       THEN resp.status = 400 /\ resp.body = TextBody("Missing link ID") /\ QueryCalls = {}
       ELSE IF ReqId.err
       THEN resp.status = 400 /\ QueryCalls = {}
       ELSE /\ CallsTo("DeleteLink") # {}
            /\ \A j \in CallsTo("DeleteLink") :
                  /\ trace[j].id = ReqId.val
                  /\ trace[j].ok =>
                        /\ resp.status = 200 /\ resp.body = EmptyBody
                        /\ DOMAIN store = DOMAIN pre \ {ReqId.val}
                        /\ \A k \in DOMAIN store : store[k] = pre[k]
                        /\ GetLink(store, ReqId.val, FALSE).err
                        /\ LET l == ListLinks(store, FALSE).links
                           IN  \A i \in DOMAIN l : l[i].ID # ReqId.val

\* One of two Links was deleted.
C8_Witness ==
    /\ Dispatched /\ req.method = "DELETE" /\ resp.status = 200
    /\ ReqId.val \in DOMAIN pre /\ DOMAIN store # {} /\ ReqId.val \notin DOMAIN store

(* C9.  Create never reports partial success: when CreateLink fails, or   *)
(* the re-read of the created Link fails, the response is 500; a 200      *)
(* response to a POST carries the Link read back from the store.          *)
C9_CreateNeverPartial ==
    (Dispatched /\ req.method = "POST")
    => /\ (\E i \in QueryCalls : ~trace[i].ok) => resp.status = 500
       /\ resp.status = 200 =>
             \E j \in CallsTo("CreateLink") :
                 /\ trace[j].id \in DOMAIN store
                 /\ resp.body.links = <<store[trace[j].id]>>

(* C10.  Edit-form request (PUT with an id and an empty body): an id that *)
(* does not parse is answered 400; a failed fetch of the Link (no Link    *)
(* with that id included) is answered 500; a 200 text/html edit form is   *)
(* produced only for a Link that was fetched, and shows its current url   *)
(* and commentary, whatever the negotiation header.                       *)
C10_EditForm ==
    (Dispatched /\ EditFormRequest)
    => /\ ReqId.err => resp.status = 400
       /\ (\E i \in CallsTo("GetLink") : ~trace[i].ok) => resp.status = 500
       /\ resp.status = 200 =>
             /\ resp.ctype = "text/html"
             /\ ReqId.val \in DOMAIN store
             /\ resp.body.tpl = "edit"
             /\ resp.body.links = <<store[ReqId.val]>>

(* C11.  Full-update PUT.  An id that is missing or does not parse is     *)
(* answered 400.  With an id that parses, a call to the queries that      *)
(* fails on a Link the store holds (the fetch of the current Link,        *)
(* UpdateLink, the re-read) is a failure of the store and is answered     *)
(* 500.  No full update with a failed call is answered 200.               *)
C11_FullUpdateErrors ==
    (Dispatched /\ FullUpdateRequest /\ ~ReqForm.err)
    => /\ ReqId.err => resp.status = 400
       /\ (\E i \in QueryCalls : ~trace[i].ok) => resp.status # 200
       /\ (~ReqId.err /\ \E i \in QueryCalls : ~trace[i].ok /\ trace[i].id \in DOMAIN pre)
             => resp.status = 500

(* C12.  Every response with status 500 of an invocation that reached the *)
(* verb switch carries the raw text of the error as its body, and every   *)
(* response with status 400 carries a fixed message.                      *)
C12_ErrorBodies ==
    Dispatched =>
        /\ resp.status = 500 => resp.body.kind = "error" /\ resp.body.text # ""
        /\ resp.status = 400 => resp.body.kind = "text" /\ resp.body.text # ""

(* C14.  The id of a Link is its key in the table: no two persisted Links *)
(* share an id.  A PUT leaves the set of ids as it was, the id of every   *)
(* Link as it was, and every Link other than the one named by its id      *)
(* parameter unchanged.                                                   *)
C14_IdUniqueUpdateLocal ==
    /\ \A k \in DOMAIN store : store[k].ID = k
    /\ \A j, k \in DOMAIN store : store[j].ID = store[k].ID => j = k
    /\ (Done /\ req.method = "PUT")
          => /\ DOMAIN store = DOMAIN pre
             /\ \A k \in DOMAIN pre :
                   /\ store[k].ID = pre[k].ID
                   /\ k # ReqId.val => store[k] = pre[k]

\* A full update changed one of two Links.
C14_Witness ==
    /\ FetchedForUpdate /\ resp.status = 200
    /\ Cardinality(DOMAIN pre) = 2
    /\ store[ReqId.val] # pre[ReqId.val]

(* C15.  A GET without an id, or with an empty id parameter, calls        *)
(* ListLinks and never GetLink, and leaves the store alone; when neither  *)
(* the store nor rendering fails it is answered 200 with a list that      *)
(* holds every persisted Link exactly once, ids strictly descending.      *)
C15_ListAllDescending ==
    (Dispatched /\ req.method = "GET" /\ QueryId(req) = <<>>)
    => /\ CallsTo("ListLinks") # {} /\ CallsTo("GetLink") = {}
       /\ store = pre
       /\ NoStoreOrRenderFailure => resp.status = 200
       /\ resp.status = 200 =>
             LET l == resp.body.links
             IN  /\ resp.body.shape = "list"
                 /\ Len(l) = Cardinality(DOMAIN store)
                 /\ \A k \in DOMAIN store : \E i \in DOMAIN l : l[i] = store[k]
                 /\ \A i, j \in DOMAIN l : i < j => l[i].ID > l[j].ID

\* A GET with an empty id parameter listed two Links, newest first.
C15_Witness ==
    /\ Dispatched /\ req.method = "GET" /\ req.hasId /\ req.id = <<>>
    /\ resp.status = 200 /\ Len(resp.body.links) = 2
    /\ resp.body.links[1].ID = 2 /\ resp.body.links[2].ID = 1
    /\ resp.body.links[2].Commentary = "c2"

----------------------------------------------------------------------------
(* respond() on its own.  RespondInit draws a request and a result to     *)
(* send, ApplyRespond applies respond() to them.  The result may be of a  *)
(* type respond() has no case for, which no branch of handler() passes.   *)

handlerVars == <<store, seq, schema, queries, templates, phase, req, resp, trace, pre, prior>>

\* The values of the hx-request header: absent, "true", and another value.
RespondHeaders == {"", "true", "false"}

RespondData ==
    LET l1 == Link(1, "u1", "c1", NullString("t1", TRUE), NullString("i1", TRUE))
        l2 == Link(2, "u2", "c2", NullString("t2", TRUE), ZeroNullString)
    IN  {[shape |-> "list", links |-> l] : l \in {<<>>, <<l1>>, <<l2, l1>>}}
        \cup {[shape |-> "link", links |-> <<l>>] : l \in {l1, l2}}
        \cup {[shape |-> "other", links |-> <<>>]}

RespondInputs ==
    {[fn |-> "respond", r |-> Request("GET", FALSE, <<>>, view, hx, <<>>),
      data |-> d, renderErr |-> x] :
        view \in Views, hx \in RespondHeaders, d \in RespondData, x \in BOOLEAN}

RespondInit ==
    /\ store = <<>>
    /\ seq = 0
    /\ schema = "rowid"
    /\ queries = "nil"
    /\ templates = "parsed"
    /\ phase = "idle"
    /\ req = NoRequest
    /\ resp = NoResponse
    /\ trace = <<>>
    /\ pre = <<>>
    /\ prior = NoPrior
    /\ input \in RespondInputs
    /\ output = NoOutput
    /\ procs = NoProcs

ApplyRespond ==
    /\ input.fn = "respond"
    /\ output = NoOutput
    /\ output' = [fn   |-> "respond",
                  resp |-> respond(input.r, input.data.shape, input.data.links,
                                   input.renderErr)]
    /\ UNCHANGED <<handlerVars, input, procs>>

RespondNext == ApplyRespond

RespondSpec == RespondInit /\ [][RespondNext]_vars

Responded == output.fn = "respond"

----------------------------------------------------------------------------
(* fetchMetadata() on its own: the page is fetched, parsed, and the title *)
(* and the image are extracted from the document.  A string is a sequence *)
(* of one-character strings.  A document is what the selectors of         *)
(* fetchMetadata() see of it: the text of <title>, the content attribute  *)
(* of four meta elements, and the src attribute of each <img> in document *)
(* order.                                                                 *)

WhiteSpace == {" ", "\t", "\n"}

RECURSIVE TrimLeft(_)
TrimLeft(s) == IF s # <<>> /\ s[1] \in WhiteSpace THEN TrimLeft(Tail(s)) ELSE s

RECURSIVE TrimRight(_)
TrimRight(s) ==
    IF s # <<>> /\ s[Len(s)] \in WhiteSpace THEN TrimRight(SubSeq(s, 1, Len(s) - 1)) ELSE s

\* strings.TrimSpace
TrimSpace(s) == TrimRight(TrimLeft(s))

\* strings.HasPrefix
HasPrefix(s, prefix) == Len(s) >= Len(prefix) /\ SubSeq(s, 1, Len(prefix)) = prefix

\* The result of Selection.Attr: the value, and whether the attribute exists.
Attr(exists, val) == [exists |-> exists, val |-> val]
NoAttr == Attr(FALSE, <<>>)

Document(title, ogTitle, metaTitle, ogImage, twImage, imgs) ==
    [title |-> title, ogTitle |-> ogTitle, metaTitle |-> metaTitle,
     ogImage |-> ogImage, twImage |-> twImage, imgs |-> imgs]

\* The first place of c in s from place i on; Len(s) + 1 when there is none.
RECURSIVE IndexFrom(_, _, _)
IndexFrom(s, c, i) ==
    IF i > Len(s) THEN Len(s) + 1
    ELSE IF s[i] = c THEN i
    ELSE IndexFrom(s, c, i + 1)

\* url.Parse of scheme://host/path: Scheme is what stands before the first
\* colon, Host what stands between the two slashes after it and the next
\* slash.  A control character in the string is an error.
UrlParse(urlStr) ==
    LET colon == IndexFrom(urlStr, ":", 1)
        authority == /\ colon + 2 <= Len(urlStr)
                     /\ urlStr[colon + 1] = "/" /\ urlStr[colon + 2] = "/"
        slash == IndexFrom(urlStr, "/", colon + 3)
    IN  IF \E i \in DOMAIN urlStr : urlStr[i] \in {"\t", "\n"}
        THEN [err |-> TRUE, Scheme |-> <<>>, Host |-> <<>>]
        ELSE IF ~authority
        THEN [err |-> FALSE, Scheme |-> <<>>, Host |-> <<>>]
        ELSE [err    |-> FALSE,
              Scheme |-> SubSeq(urlStr, 1, colon - 1),
              Host   |-> SubSeq(urlStr, colon + 3, slash - 1)]

\* "Extract title"
ExtractTitle(doc) ==
    IF doc.title # <<>> THEN TrimSpace(doc.title)
    ELSE IF doc.ogTitle.exists THEN TrimSpace(doc.ogTitle.val)
    ELSE IF doc.metaTitle.exists THEN TrimSpace(doc.metaTitle.val)
    ELSE <<>>

\* Mutant of EachImg: without "if metadata.ImageURL == """.
EachImgUnguarded(urlStr, s, ImageURL) ==
    IF ~s.exists THEN ImageURL
    ELSE IF HasPrefix(s.val, <<"/", "/">>) THEN <<"h", "t", "t", "p", "s", ":">> \o s.val
    ELSE IF HasPrefix(s.val, <<"/">>)
    THEN LET u == UrlParse(urlStr)
         IN  IF ~u.err THEN u.Scheme \o <<":", "/", "/">> \o u.Host \o s.val ELSE ImageURL
    ELSE IF HasPrefix(s.val, <<"h", "t", "t", "p">>) THEN s.val
    ELSE ImageURL

\* The callback of doc.Find("img").Each: s is the src attribute of the
\* element, ImageURL is metadata.ImageURL before and, as result, after it.
EachImg(urlStr, s, ImageURL) ==
    IF ImageURL # <<>> THEN ImageURL
    ELSE IF ~s.exists THEN ImageURL
    ELSE IF HasPrefix(s.val, <<"/", "/">>) THEN <<"h", "t", "t", "p", "s", ":">> \o s.val
    ELSE IF HasPrefix(s.val, <<"/">>)
    THEN LET u == UrlParse(urlStr)
         IN  IF ~u.err THEN u.Scheme \o <<":", "/", "/">> \o u.Host \o s.val ELSE ImageURL
    ELSE IF HasPrefix(s.val, <<"h", "t", "t", "p">>) THEN s.val
    ELSE ImageURL

\* doc.Find("img").Each(...) from element i on.
RECURSIVE FindImgEach(_, _, _, _)
FindImgEach(urlStr, imgs, i, ImageURL) ==
    IF i > Len(imgs) THEN ImageURL
    ELSE FindImgEach(urlStr, imgs, i + 1, EachImg(urlStr, imgs[i], ImageURL))

\* "Extract image"
ExtractImage(urlStr, doc) ==
    IF doc.ogImage.exists THEN doc.ogImage.val
    ELSE IF doc.twImage.exists THEN doc.twImage.val
    ELSE FindImgEach(urlStr, doc.imgs, 1, <<>>)

\* fetchMetadata(urlStr) when the page behind urlStr is doc; netErr is a
\* failure of the request or of reading the page.  client.Get parses the
\* url itself and fails on one that does not parse.
fetchMetadataOf(urlStr, netErr, doc) ==
    IF netErr \/ UrlParse(urlStr).err
    THEN [err |-> TRUE, metadata |-> LinkMetadata(<<>>, <<>>)]
    ELSE [err |-> FALSE,
          metadata |-> LinkMetadata(ExtractTitle(doc), ExtractImage(urlStr, doc))]

\* The longest list of <img> elements in a document of the model.
MaxImgs == 2

\* Page urls: https://s.c/p, http://a.b, and one with a line feed in it.
UrlA == <<"h", "t", "t", "p", "s", ":", "/", "/", "s", ".", "c", "/", "p">>
UrlB == <<"h", "t", "t", "p", ":", "/", "/", "a", ".", "b">>
UrlBad == <<"h", "t", "\n", "p", ":", "/", "/", "a">>
PageUrls == {UrlA, UrlB, UrlBad}

\* <title>: none, blank, text with blanks around it.
TitleTexts == {<<>>, <<" ">>, <<" ", "T", "\n">>}
OgTitles == {NoAttr, Attr(TRUE, <<>>), Attr(TRUE, <<"G", " ">>)}
MetaTitles == {NoAttr, Attr(TRUE, <<"M">>)}
OgImages == {NoAttr, Attr(TRUE, <<>>), Attr(TRUE, <<"o">>)}
TwImages == {NoAttr, Attr(TRUE, <<"t">>)}

\* src of an <img>: none, //c, /l, httpx, i.
Srcs ==
    {NoAttr, Attr(TRUE, <<"/", "/", "c">>), Attr(TRUE, <<"/", "l">>),
     Attr(TRUE, <<"h", "t", "t", "p", "x">>), Attr(TRUE, <<"i">>)}
ImgLists == UNION {[1..n -> Srcs] : n \in 0..MaxImgs}

Documents ==
    {Document(ti, og, mt, oi, tw, im) :
        ti \in TitleTexts, og \in OgTitles, mt \in MetaTitles,
        oi \in OgImages, tw \in TwImages, im \in ImgLists}

ExtractInputs ==
    {[fn |-> "fetchMetadata", urlStr |-> u, netErr |-> n, doc |-> d] :
        u \in PageUrls, n \in BOOLEAN, d \in Documents}

ExtractInit ==
    /\ store = <<>>
    /\ seq = 0
    /\ schema = "rowid"
    /\ queries = "nil"
    /\ templates = "nil"
    /\ phase = "idle"
    /\ req = NoRequest
    /\ resp = NoResponse
    /\ trace = <<>>
    /\ pre = <<>>
    /\ prior = NoPrior
    /\ input \in ExtractInputs
    /\ output = NoOutput
    /\ procs = NoProcs

ApplyFetchMetadata ==
    /\ input.fn = "fetchMetadata"
    /\ output = NoOutput
    /\ output' = [fn  |-> "fetchMetadata",
                  res |-> fetchMetadataOf(input.urlStr, input.netErr, input.doc)]
    /\ UNCHANGED <<handlerVars, input, procs>>

ExtractNext == ApplyFetchMetadata

ExtractSpec == ExtractInit /\ [][ExtractNext]_vars

\* fetchMetadata() returned metadata and no error.
Extracted == output.fn = "fetchMetadata" /\ ~output.res.err

(* C16.  The title fetchMetadata() returns is the first non-empty of: the *)
(* trimmed text of <title>, the trimmed content of the og:title meta, the *)
(* trimmed content of the title meta; a blank <title> or an og:title with *)
(* empty content does not keep a later candidate from being taken.        *)
C16_TitleFallback ==
    Extracted =>
        LET d == input.doc
            t1 == TrimSpace(d.title)
            t2 == IF d.ogTitle.exists THEN TrimSpace(d.ogTitle.val) ELSE <<>>
            t3 == IF d.metaTitle.exists THEN TrimSpace(d.metaTitle.val) ELSE <<>>
        IN  output.res.metadata.Title =
                IF t1 # <<>> THEN t1 ELSE IF t2 # <<>> THEN t2 ELSE t3

\* scheme://host of the page urls of the model.
OriginOf(urlStr) ==
    IF urlStr = UrlA THEN <<"h", "t", "t", "p", "s", ":", "/", "/", "s", ".", "c">>
    ELSE <<"h", "t", "t", "p", ":", "/", "/", "a", ".", "b">>

UsableSrc(s) ==
    /\ s.exists
    /\ \/ HasPrefix(s.val, <<"/">>)
       \/ HasPrefix(s.val, <<"h", "t", "t", "p">>)

BuiltFrom(urlStr, src) ==
    IF HasPrefix(src, <<"/", "/">>) THEN <<"h", "t", "t", "p", "s", ":">> \o src
    ELSE IF HasPrefix(src, <<"/">>) THEN OriginOf(urlStr) \o src
    ELSE src

(* C17.  The image fetchMetadata() returns is the content of og:image if  *)
(* the page has one, else that of twitter:image if it has one, else the   *)
(* url built from the first <img> in document order with a usable src     *)
(* (//x gives https://x, /x gives scheme://host/x of the page url, http.. *)
(* is taken as it is; any other or missing src is passed over), whatever  *)
(* <img> elements follow it; with no usable candidate the image is empty  *)
(* and fetchMetadata() returns no error.  It fails only when the request  *)
(* for the page does.                                                     *)
C17_ImageFallback ==
    /\ (output.fn = "fetchMetadata" /\ ~input.netErr /\ input.urlStr # UrlBad)
          => ~output.res.err
    /\ Extracted =>
        LET d == input.doc
            usable == {i \in DOMAIN d.imgs : UsableSrc(d.imgs[i])}
            first == CHOOSE i \in usable : \A j \in usable : i <= j
        IN  output.res.metadata.ImageURL =
                IF d.ogImage.exists THEN d.ogImage.val
                ELSE IF d.twImage.exists THEN d.twImage.val
                ELSE IF usable # {} THEN BuiltFrom(input.urlStr, d.imgs[first].val)
                ELSE <<>>

\* The page has no og:image and no twitter:image; its first <img> has the
\* src /l, its second the src //c, and the image is https://s.c/l.
C17_Witness ==
    /\ Extracted /\ input.urlStr = UrlA
    /\ ~input.doc.ogImage.exists /\ ~input.doc.twImage.exists
    /\ input.doc.imgs = <<Attr(TRUE, <<"/", "l">>), Attr(TRUE, <<"/", "/", "c">>)>>
    /\ output.res.metadata.ImageURL =
          <<"h", "t", "t", "p", "s", ":", "/", "/", "s", ".", "c", "/", "l">>

----------------------------------------------------------------------------
(* The package variables across invocations.  A step that ends in phase   *)
(* "done" is one invocation of handler(); its trace has the ExecDDL entry *)
(* exactly when sql.Open succeeded, that is when "queries = models.New(db)"*)
(* ran, and the entry is ok exactly when the four templates were parsed   *)
(* and assigned after it.                                                 *)

(* C18.  The store handle and the templates are initialized once in the   *)
(* life of the process: once the package variable queries is set, no      *)
(* later invocation assigns it, and once the templates are set, no later  *)
(* invocation assigns them.                                               *)
C18_HandlesInitializedOnce ==
    [][/\ queries # "nil" => ~(phase' = "done" /\ trace' # <<>>)
       /\ templates # "nil" => ~(phase' = "done" /\ trace' # <<>> /\ trace'[1].ok)]_vars

----------------------------------------------------------------------------
(* Concurrent requests.  Every invocation runs in its own process against *)
(* the one links table; the calls to the queries are the atomic steps and *)
(* nothing groups them.  Two full updates are in flight at most, next to  *)
(* any number of creates and deletes.  A delete is one call.  A create is *)
(* CreateLink and a re-read whose result goes into the response only; the *)
(* re-read changes nothing in the table and its error is not tested, so   *)
(* it is taken together with CreateLink.  A full update in flight holds   *)
(* what handler() holds in its local variables between two calls.  gone   *)
(* and back record, for a full update, that a DELETE removed its Link     *)
(* after the fetch and before UpdateLink, and that a POST was given the   *)
(* same id after that and before the re-read.                             *)

Putters == {"put1", "put2"}

ZeroParams == [ID |-> 0, Url |-> "", Commentary |-> "",
               Title |-> ZeroNullString, ImageUrl |-> ZeroNullString]

Proc(pc, id, link, gone, back, status) ==
    [pc |-> pc, id |-> id, link |-> link, gone |-> gone, back |-> back, status |-> status]
IdleProc == Proc("idle", 0, ZeroParams, FALSE, FALSE, 0)

\* The bodies of the concurrent requests: both valid, with different urls.
ConcBodies == {Form("u1", "c1"), Form("u2", "c1")}

ConcInit ==
    /\ store = <<>>
    /\ seq = 0
    /\ schema \in {"rowid", "autoincrement"}
    /\ queries = "nil"
    /\ templates = "nil"
    /\ phase = "idle"
    /\ req = NoRequest
    /\ resp = NoResponse
    /\ trace = <<>>
    /\ pre = <<>>
    /\ prior = NoPrior
    /\ input = NoInput
    /\ output = NoOutput
    /\ procs = [q \in Putters |-> IdleProc]

concFrame == <<schema, queries, templates, phase, req, resp, trace, pre, prior, input, output>>

\* A DELETE removed Link id: the full updates that fetched it and have not
\* written yet have lost it.
AfterDelete(ps, s, id) ==
    [q \in DOMAIN ps |->
        IF ps[q].pc = "update" /\ ps[q].id = id /\ id \in DOMAIN s
        THEN [ps[q] EXCEPT !.gone = TRUE]
        ELSE ps[q]]

\* A POST was given id: the full updates in flight that lost the Link with
\* this id have a Link with their id again.
AfterCreate(ps, id) ==
    [q \in DOMAIN ps |->
        IF ps[q].pc \in {"update", "reread"} /\ ps[q].id = id /\ ps[q].gone
        THEN [ps[q] EXCEPT !.back = TRUE]
        ELSE ps[q]]

\* PUT ?id=<id> with a valid body, up to UpdateLink: the fetch of the
\* current Link, the check of the payload, the metadata policy.
PutFetch(p) ==
    /\ procs[p].pc = "idle"
    /\ \E id \in 1..MaxLinks, body \in ConcBodies, netErr \in BOOLEAN :
        LET g == GetLink(store, id, FALSE)
            form == ParseQuery(body).form
            Url == FormGet(form, "url")
            content == FormGet(form, "commentary")
            md == UpdateMetadata(Url, g.link, netErr)
            link == [ID |-> g.link.ID, Url |-> Url, Commentary |-> content,
                     Title |-> md.columns.Title, ImageUrl |-> md.columns.ImageUrl]
        IN  procs' = [procs EXCEPT ![p] =
                        IF g.err \/ InvalidPayload(Url, content)
                        THEN Proc("done", 0, ZeroParams, FALSE, FALSE, 400)
                        ELSE Proc("update", id, link, FALSE, FALSE, 0)]
    /\ UNCHANGED <<store, seq, concFrame>>

\* PUT: queries.UpdateLink.
PutWrite(p) ==
    /\ procs[p].pc = "update"
    /\ store' = UpdateLink(store, procs[p].link, FALSE).store
    /\ procs' = [procs EXCEPT ![p].pc = "reread", ![p].link = ZeroParams]
    /\ UNCHANGED <<seq, concFrame>>

\* PUT: the re-read of the Link and the response.
PutReread(p) ==
    /\ procs[p].pc = "reread"
    /\ procs' = [procs EXCEPT ![p].pc = "done", ![p].id = 0,
                              ![p].status = IF GetLink(store, procs[p].id, FALSE).err
                                            THEN 500 ELSE 200]
    /\ UNCHANGED <<store, seq, concFrame>>

\* POST with a valid body: the Resolver, queries.CreateLink, the re-read.
ConcPost ==
    /\ \E body \in ConcBodies, netErr \in BOOLEAN :
        LET form == ParseQuery(body).form
            Url == FormGet(form, "url")
            md == CreateMetadata(Url, netErr)
            link == [Url |-> Url, Commentary |-> FormGet(form, "commentary"),
                     Title |-> md.columns.Title, ImageUrl |-> md.columns.ImageUrl]
        IN  \E cr \in {CreateLink(store, seq, schema, link, FALSE)} :
                /\ DOMAIN cr.store \subseteq 1..MaxLinks
                /\ store' = cr.store
                /\ seq' = cr.seq
                /\ procs' = AfterCreate(procs, cr.id)
    /\ UNCHANGED concFrame

\* DELETE ?id=<id>: queries.DeleteLink is its one call.
ConcDelete ==
    /\ \E id \in 1..MaxLinks :
        /\ store' = DeleteLink(store, id, FALSE).store
        /\ procs' = AfterDelete(procs, store, id)
    /\ store' # store
    /\ UNCHANGED <<seq, concFrame>>

\* The response is delivered; the process is free for another request.
Return(p) ==
    /\ procs[p].pc = "done"
    /\ procs' = [procs EXCEPT ![p] = IdleProc]
    /\ UNCHANGED <<store, seq, concFrame>>

ConcNext ==
    \/ \E p \in Putters : PutFetch(p)
    \/ \E p \in Putters : PutWrite(p)
    \/ \E p \in Putters : PutReread(p)
    \/ ConcPost
    \/ ConcDelete
    \/ \E p \in Putters : Return(p)

ConcSpec == ConcInit /\ [][ConcNext]_vars

----------------------------------------------------------------------------
(* Properties of the concurrent requests *)

\* A full update that has fetched its Link and not answered yet.
InFlight(p) == procs[p].pc \in {"update", "reread"}

(* C19.  Whatever the interleaving of the calls of concurrent creates,    *)
(* full updates and deletes: every persisted Link has either no title and *)
(* no image, or the title and image the Resolver gives for the url the    *)
(* Link is stored with.                                                   *)
C19_MetadataMatchesUrl ==
    \A k \in DOMAIN store :
        ColumnsAbsent(store[k]) \/ ColumnsAre(store[k], PageMetadata(store[k].Url))

\* Two full updates of the same Link to different urls are in flight: one
\* has written its url and metadata, the other is about to write.
C19_Witness ==
    \E p, q \in Putters :
        /\ procs[p].pc = "reread" /\ procs[q].pc = "update"
        /\ procs[p].id = procs[q].id /\ procs[p].id \in DOMAIN store
        /\ procs[q].link.Url # store[procs[q].id].Url
        /\ store[procs[q].id].Title.Valid

\* What every step does to the set of ids: it adds one id only in a POST,
\* removes ids only in a DELETE, and no step of a full update changes it.
IdSetFrame ==
    /\ (\E p \in Putters : procs'[p].pc # procs[p].pc) => DOMAIN store' = DOMAIN store
    /\ DOMAIN store' # DOMAIN store =>
          \/ \E id \in DOMAIN store : DOMAIN store' = DOMAIN store \ {id}
          \/ \E id \in 1..MaxLinks \ DOMAIN store :
                /\ DOMAIN store' = DOMAIN store \cup {id}
                /\ \A k \in DOMAIN store : store'[k] = store[k]

====
